---- MODULE Spec2Model ----
(***************************************************************************)
(* Model of the swimming results browser (src/swimming_results_app.py):    *)
(* the time parser and formatter, the CSV load pipeline and the filter /   *)
(* analysis script main().                                                 *)
(*                                                                         *)
(* Python strings are sequences of one-character strings.  A Python value  *)
(* is a record [t, s, v]: a str (t = "str", text s), a float (t = "float", *)
(* value v in units of 10^-Prec seconds) or NaN / NaT / None (t = "nan").  *)
(***************************************************************************)
EXTENDS Integers, Sequences, FiniteSets, TLC

\* ---------------------------------------------------------------- bounds
\* longest raw string the time functions are applied to
MaxLen == 4
\* largest whole-minute count of the numeric seconds values that are formatted
MaxMinute == 1

\* number of decimal digits a float value keeps: a raw string of MaxLen
\* characters has at most MaxLen - 1 fraction digits, and the texts of the CSV
\* files have two, so parsing is exact
Prec == MaxLen - 1

RECURSIVE Pow10(_)
Pow10(n) == IF n = 0 THEN 1 ELSE 10 * Pow10(n - 1)

\* units per second of a float value
U == Pow10(Prec)

\* ---------------------------------------------------------- Python values
PStr(s) == [t |-> "str", s |-> s, v |-> 0]
PFloat(n) == [t |-> "float", s |-> <<>>, v |-> n]
PNaN == [t |-> "nan", s |-> <<>>, v |-> 0]

isna(x) == x.t = "nan"

\* ------------------------------------------------------------ str methods
IsSpace(c) == c = " "

RECURSIVE LStrip(_)
LStrip(s) == IF s # <<>> /\ IsSpace(Head(s)) THEN LStrip(Tail(s)) ELSE s

RECURSIVE RStrip(_)
RStrip(s) ==
  IF s # <<>> /\ IsSpace(s[Len(s)]) THEN RStrip(SubSeq(s, 1, Len(s) - 1)) ELSE s

strip(s) == RStrip(LStrip(s))

Lowers == <<"a","b","c","d","e","f","g","h","i","j","k","l","m",
            "n","o","p","q","r","s","t","u","v","w","x","y","z">>
Uppers == <<"A","B","C","D","E","F","G","H","I","J","K","L","M",
            "N","O","P","Q","R","S","T","U","V","W","X","Y","Z">>

UpperChar(c) ==
  IF \E i \in 1..26 : Lowers[i] = c
  THEN Uppers[CHOOSE i \in 1..26 : Lowers[i] = c] ELSE c

LowerChar(c) ==
  IF \E i \in 1..26 : Uppers[i] = c
  THEN Lowers[CHOOSE i \in 1..26 : Uppers[i] = c] ELSE c

upper(s) == [i \in 1..Len(s) |-> UpperChar(s[i])]
lower(s) == [i \in 1..Len(s) |-> LowerChar(s[i])]

Contains(s, c) == \E i \in 1..Len(s) : s[i] = c

\* index of the first occurrence of c in s (s.split(c, 1) cuts there)
FirstIndex(s, c) == CHOOSE i \in 1..Len(s) : s[i] = c /\ \A j \in 1..(i - 1) : s[j] # c

\* ------------------------------------------------------ int() and float()
DigitChars == <<"0","1","2","3","4","5","6","7","8","9">>
IsDigit(c) == \E i \in 1..10 : DigitChars[i] = c
DigitVal(c) == (CHOOSE i \in 1..10 : DigitChars[i] = c) - 1
AllDigits(s) == \A i \in 1..Len(s) : IsDigit(s[i])

RECURSIVE DigitsVal(_)
DigitsVal(s) ==
  IF s = <<>> THEN 0 ELSE 10 * DigitsVal(SubSeq(s, 1, Len(s) - 1)) + DigitVal(s[Len(s)])

\* value, in units, of the fraction digits fp of a decimal literal
RECURSIVE FracVal(_, _)
FracVal(fp, i) ==
  IF i > Len(fp) THEN 0
  ELSE DigitVal(fp[i]) * (U \div Pow10(i)) + FracVal(fp, i + 1)

HasSign(s) == s # <<>> /\ Head(s) \in {"-", "+"}
Unsigned(s) == IF HasSign(s) THEN Tail(s) ELSE s
SignOf(s) == IF s # <<>> /\ Head(s) = "-" THEN -1 ELSE 1

\* Python int(str): <<n>>, or <<>> where int() raises ValueError.
\* (Strings of the model hold no underscore and no non-ASCII digit.)
PyInt(s) ==
  LET t == strip(s)
      d == Unsigned(t)
  IN  IF d # <<>> /\ AllDigits(d) THEN <<SignOf(t) * DigitsVal(d)>> ELSE <<>>

\* Python float(str): <<value in units>>, or <<>> where float() raises
\* ValueError.  (Strings of the model hold none of the letters of an
\* exponent, "inf", "nan" or an underscore.)
PyFloat(s) ==
  LET t == strip(s)
      d == Unsigned(t)
      k == IF Contains(d, ".") THEN FirstIndex(d, ".") ELSE Len(d) + 1
      ip == SubSeq(d, 1, k - 1)
      fp == SubSeq(d, k + 1, Len(d))
  IN  IF AllDigits(ip) /\ AllDigits(fp) /\ Len(ip) + Len(fp) >= 1
      THEN <<SignOf(t) * (DigitsVal(ip) * U + FracVal(fp, 1))>>
      ELSE <<>>

\* ------------------------------------------------------- number rendering
RECURSIVE IntStr(_)
IntStr(n) ==
  IF n < 10 THEN <<DigitChars[n + 1]>>
  ELSE Append(IntStr(n \div 10), DigitChars[(n % 10) + 1])

Abs(n) == IF n < 0 THEN -n ELSE n

\* the sum of f over the indices S
RECURSIVE SumOver(_, _)
SumOver(f, S) ==
  IF S = {} THEN 0 ELSE LET i == CHOOSE j \in S : TRUE IN f[i] + SumOver(f, S \ {i})

\* the fraction digits of a units below one second, trailing zeros dropped
RECURSIVE FracDigits(_, _)
FracDigits(a, i) ==
  IF a = 0 \/ i > Prec THEN <<>>
  ELSE <<DigitChars[(a \div (U \div Pow10(i))) + 1]>>
       \o FracDigits(a % (U \div Pow10(i)), i + 1)

\* str(float): shortest repr, "62.34", "60.0" (values of the model are far
\* from the ranges where repr switches to exponent notation)
ReprFloat(v) ==
  LET a == Abs(v)
      f == FracDigits(a % U, 1)
  IN  (IF v < 0 THEN <<"-">> ELSE <<>>) \o IntStr(a \div U) \o <<".">>
      \o (IF f = <<>> THEN <<"0">> ELSE f)

\* str(x)
str(x) ==
  IF x.t = "str" THEN x.s
  ELSE IF x.t = "float" THEN ReprFloat(x.v)
  ELSE <<"n","a","n">>

\* v rounded to hundredths as ".2f" does.  A decimal tie is decided by the
\* binary value of the float, which lies above or below it: up says which.
Round2(v, up) ==
  LET q == U \div 100
      a == Abs(v)
      b == a \div q
      r == a % q
  IN  IF 2 * r > q \/ (2 * r = q /\ up) THEN b + 1 ELSE b

\* f"{v:.2f}"
Fixed2(v, up) ==
  LET h == Round2(v, up)
  IN  (IF v < 0 THEN <<"-">> ELSE <<>>) \o IntStr(h \div 100) \o <<".">>
      \o <<DigitChars[((h \div 10) % 10) + 1], DigitChars[(h % 10) + 1]>>

RECURSIVE ZeroPad(_, _)
ZeroPad(s, w) == IF Len(s) >= w THEN s ELSE ZeroPad(<<"0">> \o s, w)

\* f"{v:05.2f}"
Fixed2Pad5(v, up) == ZeroPad(Fixed2(v, up), 5)

\* ------------------------------------------------------------ the program
DQ_LIKE ==
  { <<"D","Q">>, <<"D","S","Q">>, <<"D","N","F">>, <<"D","N","S">>,
    <<"N","S">>, <<"S","C","R">>, <<"N","T">>, <<>> }

NA_STR == <<"N","/","A">>

parse_time_to_seconds_minutes_as_float(x) ==
  IF isna(x) THEN PNaN
  ELSE LET s == upper(strip(str(x)))
       IN  IF s \in DQ_LIKE THEN PNaN
           ELSE IF Contains(s, ":")
           THEN LET k == FirstIndex(s, ":")
                    mm == PyFloat(SubSeq(s, 1, k - 1))
                    ss == PyFloat(SubSeq(s, k + 1, Len(s)))
                IN  IF mm = <<>> \/ ss = <<>> THEN PNaN
                    ELSE PFloat(mm[1] * 60 + ss[1])
           ELSE LET f == PyFloat(s)
                IN  IF f = <<>> THEN PNaN ELSE PFloat(f[1])

parse_time_to_seconds(x) ==
  IF isna(x) THEN PNaN
  ELSE LET s == upper(strip(str(x)))
       IN  IF s \in DQ_LIKE THEN PNaN
           ELSE IF Contains(s, ":")
           THEN LET k == FirstIndex(s, ":")
                    mm == PyInt(SubSeq(s, 1, k - 1))
                    ss == PyFloat(SubSeq(s, k + 1, Len(s)))
                IN  IF mm = <<>> \/ ss = <<>> THEN PNaN
                    ELSE PFloat(mm[1] * 60 * U + ss[1])
           ELSE LET f == PyFloat(s)
                IN  IF f = <<>> THEN PNaN ELSE PFloat(f[1])

format_time_one_decimal(x, up) ==
  IF isna(x) THEN NA_STR
  ELSE LET s == strip(str(x))
           u == upper(s)
       IN  IF u \in DQ_LIKE \/ u = NA_STR THEN s
           ELSE IF Contains(s, ":") THEN s
           ELSE LET f == PyFloat(s)
                IN  IF f = <<>> THEN s
                    ELSE LET sec == f[1] - (f[1] % (U \div 10))
                         IN  IF sec >= 60 * U
                             THEN LET m == sec \div (60 * U)
                                      rem == sec - m * 60 * U
                                  IN  IntStr(m) \o <<":">> \o Fixed2Pad5(rem, up)
                             ELSE Fixed2(sec, up)

format_time(x, up) ==
  IF isna(x) THEN NA_STR
  ELSE LET s == strip(str(x))
           u == upper(s)
       IN  IF u \in DQ_LIKE \/ u = NA_STR THEN s
           ELSE IF Contains(s, ":") THEN s
           ELSE LET f == PyFloat(s)
                IN  IF f = <<>> THEN s
                    ELSE LET sec == f[1]
                         IN  IF sec >= 60 * U
                             THEN LET m == sec \div (60 * U)
                                      rem == sec - m * 60 * U
                                  IN  IntStr(m) \o <<":">> \o Fixed2Pad5(rem, up)
                             ELSE Fixed2(sec, up)

\* ------------------------------------------------------------------ state
VARIABLES
  fpc,      \* position of a direct call of the time functions
  arg,      \* the argument of that call (a Python value)
  fmt,      \* the string format_time returned
  secs,     \* the value parse_time_to_seconds returned
  pc,       \* position of the app: "start", "loaded" (script about to run), "rendered"
  files,    \* the CSV files of the working directory, in glob order
  df,       \* the cached DataFrame of load_all_swimming_data
  sel,      \* the sidebar selections of the last run of main
  page      \* what the last run of main rendered

vars == <<fpc, arg, fmt, secs, pc, files, df, sel, page>>

\* ------------------------------------------- the time functions, directly
Alphabet == {"0", "7", ":", ".", "-", " ", "d", "Q"}

RECURSIVE StrN(_)
StrN(n) ==
  IF n = 0 THEN {<<>>} ELSE {Append(s, c) : s \in StrN(n - 1), c \in Alphabet}

\* every raw string of at most n characters
RawStrings(n) == UNION {StrN(k) : k \in 0..n}

\* the non-finishing markers, as written and in lower case
MarkerStrings == DQ_LIKE \cup {lower(m) : m \in DQ_LIKE}

\* numeric seconds, in thousandths: the thousandths of the sampled whole
\* seconds of the minutes 0..m and of minute 99 (t < 6000).  A
\* thousandth ending in 5 is a decimal tie of ".2f", which the binary value of
\* the float decides one way or the other per value (59.995 gives "59.99",
\* 119.995 gives "1:60.00"); the sample holds the values whose rounding the
\* decimal value decides.
SecondSample == {0, 1, 9, 10, 58, 59}
MinuteSample(m) == (0..m) \cup {99}
Thousandths == {ms \in 0..999 : ms % 10 # 5}
NumericSeconds(m) ==
  {((mm * 60 + ss) * 1000 + ms) * (U \div 1000) :
      mm \in MinuteSample(m), ss \in SecondSample, ms \in Thousandths}

TimeArgs(n, m) ==
  {PStr(s) : s \in RawStrings(n) \cup MarkerStrings}
    \cup {PFloat(t) : t \in NumericSeconds(m)} \cup {PNaN}

InitTime ==
  /\ pc = "off" /\ files = <<>> /\ df = <<>> /\ sel = <<>> /\ page = <<>>
  /\ fpc = "call"
  /\ arg \in TimeArgs(MaxLen, MaxMinute)
  /\ fmt = <<>>
  /\ secs = PNaN

\* parse_time_to_seconds(arg), as load applies it to a Time cell
CallParse ==
  /\ fpc = "call"
  /\ arg.t # "float"
  /\ secs' = parse_time_to_seconds(arg)
  /\ fpc' = "parsed"
  /\ UNCHANGED <<arg, fmt, pc, files, df, sel, page>>

\* format_time(arg)
CallFormat ==
  /\ fpc = "call"
  /\ \E up \in BOOLEAN : fmt' = format_time(arg, up)
  /\ fpc' = "formatted"
  /\ UNCHANGED <<arg, secs, pc, files, df, sel, page>>

\* parse_time_to_seconds(format_time(arg))
CallParseFormatted ==
  /\ fpc = "formatted"
  /\ secs' = parse_time_to_seconds(PStr(fmt))
  /\ fpc' = "roundtrip"
  /\ UNCHANGED <<arg, fmt, pc, files, df, sel, page>>

NextTime == CallParse \/ CallFormat \/ CallParseFormatted

SpecTime == InitTime /\ [][NextTime]_vars

\* ------------------------------------------------------------ data loading
\* the columns the modelled steps read (Age, No_of_Participants, Notes, DQ
\* and DQ_Reason are carried along by the program and read by none of them)
Columns == {"Meet_Name", "Meet_Date", "Name", "Rank", "Time", "Team"}

\* the texts pandas.read_csv reads as a missing value
NA_VALUES ==
  { <<>>,
    <<"#","N","/","A">>,
    <<"#","N","/","A"," ","N","/","A">>,
    <<"#","N","A">>,
    <<"-","1",".","#","I","N","D">>,
    <<"-","1",".","#","Q","N","A","N">>,
    <<"-","N","a","N">>,
    <<"-","n","a","n">>,
    <<"1",".","#","I","N","D">>,
    <<"1",".","#","Q","N","A","N">>,
    <<"<","N","A",">">>,
    <<"N","/","A">>,
    <<"N","A">>,
    <<"N","U","L","L">>,
    <<"N","a","N">>,
    <<"N","o","n","e">>,
    <<"n","/","a">>,
    <<"n","a","n">>,
    <<"n","u","l","l">> }

ReadCsvCell(text) == IF text \in NA_VALUES THEN PNaN ELSE PStr(text)

\* pd.read_csv(file, dtype=str).dropna(how="all"): the rows of the file over
\* the columns of its header, without the rows that are missing everywhere
read_csv(file) ==
  LET rows == [i \in 1..Len(file.lines) |->
                 [c \in file.header |-> ReadCsvCell(file.lines[i][c])]]
      Kept(r) == \E c \in DOMAIN r : ~isna(r[c])
  IN  SelectSeq(rows, Kept)

\* file.stem.replace("_", " ")
StemToEventType(stem) == [i \in 1..Len(stem) |-> IF stem[i] = "_" THEN " " ELSE stem[i]]

\* a row with every expected column (NaN where the file has none) and the
\* event type of its file
WithColumns(r, stem) ==
  LET Col(c) == IF c \in DOMAIN r THEN r[c] ELSE PNaN
  IN  [ idx |-> 0,
        Meet_Name |-> Col("Meet_Name"),
        Meet_Date |-> Col("Meet_Date"),
        Name |-> Col("Name"),
        Rank |-> Col("Rank"),
        Time |-> Col("Time"),
        Team |-> Col("Team"),
        Event_Type |-> PStr(StemToEventType(stem)),
        Time_s |-> PNaN ]

FileFrame(file) ==
  LET rows == read_csv(file)
  IN  [i \in 1..Len(rows) |-> WithColumns(rows[i], file.stem)]

\* pd.concat(all_data, ignore_index=True)
RECURSIVE ConcatFrames(_)
ConcatFrames(fs) ==
  IF fs = <<>> THEN <<>> ELSE FileFrame(Head(fs)) \o ConcatFrames(Tail(fs))

concat(fs) ==
  LET all == ConcatFrames(fs)
  IN  [i \in 1..Len(all) |-> [all[i] EXCEPT !.idx = i - 1]]

\* combined["Name"].astype(str).str.strip(): on the object column read_csv
\* and concat give, str() turns a missing value into the text "nan"
CleanNames(rows) ==
  [i \in 1..Len(rows) |-> [rows[i] EXCEPT !.Name = PStr(strip(str(rows[i].Name)))]]

\* combined[combined["Name"].astype(str).str.len() > 0]
NonEmptyNames(rows) ==
  LET Named(r) == Len(str(r.Name)) > 0
  IN  SelectSeq(rows, Named)

PDate(d) == [t |-> "date", s |-> <<>>, v |-> d]
NaT == PNaN

\* pd.to_datetime(x, errors="coerce"); a date is written as its day number
to_datetime(x) ==
  IF isna(x) THEN NaT
  ELSE LET t == strip(str(x))
       IN  IF t # <<>> /\ AllDigits(t) THEN PDate(DigitsVal(t)) ELSE NaT

\* two rows agree in every column (NaN equal to NaN, as drop_duplicates has it)
SameRow(a, b) == [a EXCEPT !.idx = 0] = [b EXCEPT !.idx = 0]

drop_duplicates_keep_all(rows) == rows

\* DataFrame.drop_duplicates(): the first of every group of equal rows
drop_duplicates(rows) ==
  LET First(i) == \A j \in 1..(i - 1) : ~SameRow(rows[j], rows[i])
      keep == {i \in 1..Len(rows) : First(i)}
      F[i \in 0..Len(rows)] ==
        IF i = 0 THEN <<>>
        ELSE IF i \in keep THEN Append(F[i - 1], rows[i]) ELSE F[i - 1]
  IN  F[Len(rows)]

\* Meet_Date coerced to a date and the numeric helper Time_s added
TypeRow(r) ==
  [r EXCEPT !.Meet_Date = to_datetime(r.Meet_Date),
            !.Time_s = parse_time_to_seconds(r.Time)]

load_all_swimming_data(fs) ==
  IF fs = <<>> THEN <<>>
  ELSE LET combined == NonEmptyNames(CleanNames(concat(fs)))
           typed == [i \in 1..Len(combined) |-> TypeRow(combined[i])]
       IN  drop_duplicates(typed)

\* ------------------------------------------------- the working directory
\* number of data lines over all CSV files
MaxRows == 3

FreeStem == <<"2","5","_","Y","a","r","d","_","F","r","e","e">>
BackStem == <<"5","0","_","Y","a","r","d","_","B","a","c","k">>

Line(name, date, time, rank, team) ==
  [ Meet_Name |-> <<"S","p","r","i","n","g">>, Meet_Date |-> date, Name |-> name,
    Rank |-> rank, Time |-> time, Team |-> team ]

\* lines of 25_Yard_Free.csv
FreeLines ==
  { Line(<<"A","n","n"," ","L","e","e">>, <<"1">>, <<"1",":","0","5",".","0","0">>, <<"2">>, <<"T","I","D","E">>),
    Line(<<"A","n","n"," ","L","e","e">>, <<"2">>, <<"D","Q">>, <<"x">>, <<"T","I","D","E">>),
    Line(<<"A","n","n"," ","L","e","e">>, <<>>, <<"1",":","0","0",".","0","0">>, <<"1">>, <<"T","I","D","E">>),
    Line(<<"A","n","n"," ","L","e","e">>, <<"2">>, <<"1",":","0","0",".","0","0">>, <<"1">>, <<"T","I","D","E">>),
    Line(<<>>, <<"1">>, <<"5","9",".","9","9">>, <<"1">>, <<"T","I","D","E">>),
    Line(<<" "," ">>, <<"1">>, <<"5","9",".","9","9">>, <<"1">>, <<"T","I","D","E">>) }

\* lines of 50_Yard_Back.csv, a file without a Team column
BackLines ==
  { Line(<<"l","e","e"," "," ","A","N","N">>, <<"2">>, <<>>, <<>>, <<>>),
    Line(<<"A","n","n"," ","L","e","e">>, <<"1">>, <<"5","9",".","9","9">>, <<"3">>, <<>>) }


Directory(a, b) ==
  (IF a = <<>> THEN <<>>
   ELSE <<[stem |-> FreeStem, header |-> Columns, lines |-> a]>>)
  \o
  (IF b = <<>> THEN <<>>
   ELSE <<[stem |-> BackStem, header |-> Columns \ {"Team"}, lines |-> b]>>)

\* every directory of at most n lines; sorted(glob) lists the 25-yard files
\* before the 50-yard files
Directories(n) ==
  UNION {{Directory(a, b) : a \in [1..k[1] -> FreeLines], b \in [1..k[2] -> BackLines]} :
           k \in {c \in (0..n) \X (0..n) : c[1] + c[2] <= n}}

\* ------------------------------------------------- sorting and tokenising
Ascii ==
  <<" ","#","-",".","/","0","1","2","3","4","5","6","7","8","9",":","<",">",
    "A","B","C","D","E","F","G","H","I","J","K","L","M","N","O","P","Q","R",
    "S","T","U","V","W","X","Y","Z","_","a","b","c","d","e","f","g","h","i",
    "j","k","l","m","n","o","p","q","r","s","t","u","v","w","x","y","z">>

Ord(c) == CHOOSE i \in 1..Len(Ascii) : Ascii[i] = c

\* a < b as Python compares str
RECURSIVE LessStr(_, _)
LessStr(a, b) ==
  IF b = <<>> THEN FALSE
  ELSE IF a = <<>> THEN TRUE
  ELSE IF Head(a) = Head(b) THEN LessStr(Tail(a), Tail(b))
  ELSE Ord(Head(a)) < Ord(Head(b))

\* sorted(list of str)
RECURSIVE Insert(_, _)
Insert(x, q) ==
  IF q = <<>> THEN <<x>>
  ELSE IF LessStr(x, Head(q)) THEN <<x>> \o q
  ELSE <<Head(q)>> \o Insert(x, Tail(q))

RECURSIVE sorted(_)
sorted(q) == IF q = <<>> THEN <<>> ELSE Insert(Head(q), sorted(Tail(q)))

\* sorted(unique values)
RECURSIVE SortedSet(_)
SortedSet(S) ==
  IF S = {} THEN <<>>
  ELSE LET x == CHOOSE y \in S : \A z \in S : z = y \/ LessStr(y, z)
       IN  <<x>> \o SortedSet(S \ {x})

Range(q) == {q[i] : i \in 1..Len(q)}

\* str.split(): the whitespace-delimited tokens
RECURSIVE split(_)
split(s) ==
  LET t == LStrip(s)
      ends == {i \in 1..Len(t) : IsSpace(t[i])}
      k == IF ends = {} THEN Len(t) + 1
           ELSE CHOOSE i \in ends : \A j \in ends : i <= j
  IN  IF t = <<>> THEN <<>>
      ELSE <<SubSeq(t, 1, k - 1)>> \o split(SubSeq(t, k, Len(t)))

\* " ".join(tokens)
RECURSIVE join(_)
join(q) ==
  IF q = <<>> THEN <<>>
  ELSE IF Len(q) = 1 THEN q[1]
  ELSE q[1] \o <<" ">> \o join(Tail(q))

\* " ".join(sorted(name.lower().split()))
NormalizeName(name) == join(sorted(split(lower(name))))

\* ------------------------------------------------------------------ main()
ALL_SWIMMERS == <<"A","l","l"," ","S","w","i","m","m","e","r","s">>
ALL_EVENTS == <<"A","l","l"," ","E","v","e","n","t","s">>
ALL_TEAMS == <<"A","l","l"," ","T","e","a","m","s">>

get_available_events(d) == SortedSet({d[i].Event_Type.s : i \in 1..Len(d)})

get_available_swimmers(d) ==
  SortedSet({d[i].Name.s : i \in {j \in 1..Len(d) : strip(d[j].Name.s) # <<>>}})

AvailableTeams(d) ==
  SortedSet({str(d[i].Team) : i \in {j \in 1..Len(d) : ~isna(d[j].Team)}})

AllDatesMissing(rows) == \A i \in 1..Len(rows) : isna(rows[i].Meet_Date)

Dates(rows) == {rows[i].Meet_Date.v : i \in {j \in 1..Len(rows) : ~isna(rows[j].Meet_Date)}}
MinDate(rows) == CHOOSE a \in Dates(rows) : \A b \in Dates(rows) : a <= b
MaxDate(rows) == CHOOSE a \in Dates(rows) : \A b \in Dates(rows) : a >= b

\* what st.date_input can return: None (here <<>>) when the data has no valid
\* date; else a (start, end) pair within [min_date, max_date], or the
\* one-element tuple it returns while the user has picked only the start
DateInputs(d) ==
  IF AllDatesMissing(d) THEN {<<>>}
  ELSE LET days == MinDate(d)..MaxDate(d)
       IN  {r \in days \X days : r[1] <= r[2]} \cup {<<a>> : a \in days}

Selections(d) ==
  [ swimmer : {ALL_SWIMMERS} \cup Range(get_available_swimmers(d)),
    event : {ALL_EVENTS} \cup Range(get_available_events(d)),
    team : {ALL_TEAMS} \cup Range(AvailableTeams(d)),
    date_range : DateInputs(d) ]

FilterSwimmer(rows, swimmer_name) ==
  LET search_normalized == NormalizeName(swimmer_name)
      Match(r) == NormalizeName(str(r.Name)) = search_normalized
  IN  IF swimmer_name # ALL_SWIMMERS THEN SelectSeq(rows, Match) ELSE rows

FilterEvent(rows, event_type) ==
  LET Match(r) == r.Event_Type.s = event_type
  IN  IF event_type # ALL_EVENTS THEN SelectSeq(rows, Match) ELSE rows

FilterTeam(rows, selected_team) ==
  LET Match(r) == ~isna(r.Team) /\ r.Team.s = selected_team
  IN  IF selected_team # ALL_TEAMS THEN SelectSeq(rows, Match) ELSE rows

FilterDateRange(rows, date_range) ==
  LET Match(r) ==
        ~isna(r.Meet_Date) /\ r.Meet_Date.v >= date_range[1] /\ r.Meet_Date.v <= date_range[2]
  IN  IF date_range # <<>> /\ Len(date_range) = 2 /\ ~AllDatesMissing(rows)
      THEN SelectSeq(rows, Match) ELSE rows

ApplyFilters(d, s) ==
  FilterDateRange(
    FilterTeam(FilterEvent(FilterSwimmer(d, s.swimmer), s.event), s.team),
    s.date_range)

\* sort_values(["Meet_Date"]): ascending, missing dates last.  (Rows of equal
\* date keep their order here; no property reads the order among them.)
DateBefore(a, b) ==
  ~isna(a.Meet_Date) /\ (isna(b.Meet_Date) \/ a.Meet_Date.v < b.Meet_Date.v)

RECURSIVE InsertByDate(_, _)
InsertByDate(x, q) ==
  IF q = <<>> THEN <<x>>
  ELSE IF DateBefore(x, Head(q)) THEN <<x>> \o q
  ELSE <<Head(q)>> \o InsertByDate(x, Tail(q))

RECURSIVE SortByDate(_)
SortByDate(q) ==
  IF q = <<>> THEN <<>>
  ELSE InsertByDate(q[Len(q)], SortByDate(SubSeq(q, 1, Len(q) - 1)))

\* the results table: every filtered row, with Time_Formatted
ResultsTable(filtered, up) ==
  LET display_df == [i \in 1..Len(filtered) |->
        [ idx |-> filtered[i].idx,
          Meet_Date |-> filtered[i].Meet_Date,
          Name |-> filtered[i].Name,
          Rank |-> filtered[i].Rank,
          Time_Formatted |-> format_time(filtered[i].Time, up),
          Team |-> filtered[i].Team,
          Event_Type |-> filtered[i].Event_Type ]]
  IN  SortByDate(display_df)

ValidRows_all(rows) == rows

\* chart_data.loc[chart_data["Time_s"].notna()]
ValidRows(rows) ==
  LET Valid(r) == ~isna(r.Time_s)
  IN  SelectSeq(rows, Valid)

NoBest == [kind |-> "none", idx |-> -1, time |-> <<>>, date |-> NaT]

\* the Best Performance box; strftime of a missing date raises ValueError
BestPerformance(chart_data, up) ==
  LET valid == ValidRows(chart_data)
  IN  IF valid = <<>>
      THEN [kind |-> "skipped", idx |-> -1, time |-> <<>>, date |-> NaT]
      ELSE LET first == CHOOSE i \in 1..Len(valid) :
                           /\ \A j \in 1..Len(valid) : valid[i].Time_s.v <= valid[j].Time_s.v
                           /\ \A j \in 1..(i - 1) : valid[j].Time_s.v > valid[i].Time_s.v
               best_row == valid[first]
           IN  [ kind |-> IF isna(best_row.Meet_Date) THEN "raised" ELSE "shown",
                 idx |-> best_row.idx,
                 time |-> format_time(best_row.Time, up),
                 date |-> best_row.Meet_Date ]

NoStats ==
  [ kind |-> "none", min |-> 0, max |-> 0, improvement |-> 0, avg |-> 0,
    range |-> <<>>, improvement_text |-> <<>>, avg_text |-> <<>>, total_events |-> 0 ]

SeqSum(f) == SumOver(f, 1..Len(f))

\* the Statistics box.  (The mean is kept to the model's 10^-Prec s.)
Statistics(chart_data, up) ==
  LET rows == ValidRows(chart_data)
      valid == [i \in 1..Len(rows) |-> rows[i].Time_s.v]
      lo == CHOOSE a \in Range(valid) : \A b \in Range(valid) : a <= b
      hi == CHOOSE a \in Range(valid) : \A b \in Range(valid) : a >= b
      avg == SeqSum(valid) \div Len(valid)
  IN  IF Len(valid) > 1
      THEN [ kind |-> "full", min |-> lo, max |-> hi, improvement |-> hi - lo,
             avg |-> avg,
             range |-> <<format_time(PFloat(lo), up), format_time(PFloat(hi), up)>>,
             improvement_text |-> Fixed2(hi - lo, up),
             avg_text |-> format_time(PFloat(avg), up),
             total_events |-> Len(chart_data) ]
      ELSE [NoStats EXCEPT !.kind = "count", !.total_events = Len(chart_data)]

\* _rank_to_num: float(x), NaN where float() raises
rank_to_num(x) ==
  IF isna(x) THEN PNaN
  ELSE LET f == PyFloat(str(x)) IN IF f = <<>> THEN PNaN ELSE PFloat(f[1])

\* min of a column of a group, missing values skipped; NaN if all are missing
ColumnMin(values) ==
  LET present == {values[i].v : i \in {j \in 1..Len(values) : ~isna(values[j])}}
  IN  IF present = {} THEN PNaN
      ELSE PFloat(CHOOSE a \in present : \A b \in present : a <= b)

\* the Event Comparison table: one row per Event_Type of the filtered rows
EventComparison(filtered, up) ==
  LET types == SortedSet({filtered[i].Event_Type.s : i \in 1..Len(filtered)})
      Group(e) == LET In(r) == r.Event_Type.s = e IN SelectSeq(filtered, In)
      Row(e) ==
        LET g == Group(e)
            best == ColumnMin([i \in 1..Len(g) |-> g[i].Time_s])
        IN  [ Event_Type |-> e,
              Best_Time_s |-> best,
              Best_Time_Formatted |-> format_time(best, up),
              Best_Rank |-> ColumnMin([i \in 1..Len(g) |-> rank_to_num(g[i].Rank)]),
              Event_Count |-> Cardinality({i \in 1..Len(g) : ~isna(g[i].Time)}) ]
  IN  [i \in 1..Len(types) |-> Row(types[i])]

NoPage ==
  [ status |-> "none", filtered |-> <<>>, table |-> <<>>, analysis |-> FALSE,
    chart |-> FALSE, best |-> NoBest, stats |-> NoStats,
    comparing |-> FALSE, comparison |-> <<>>, download |-> FALSE ]

NoSelection ==
  [swimmer |-> ALL_SWIMMERS, event |-> ALL_EVENTS, team |-> ALL_TEAMS, date_range |-> <<>>]

\* one run of main() over a non-empty DataFrame d with the selections s
Render(d, s, up) ==
  LET filtered == ApplyFilters(d, s)
      single == s.swimmer # ALL_SWIMMERS /\ s.event # ALL_EVENTS
      across == s.swimmer # ALL_SWIMMERS /\ s.event = ALL_EVENTS
      best == IF single THEN BestPerformance(filtered, up) ELSE NoBest
      raised == best.kind = "raised"
      HasTime(r) == ~isna(r.Time_s)
  IN  IF filtered = <<>>
      THEN [NoPage EXCEPT !.status = "no_results"]
      ELSE [ status |-> IF raised THEN "raised" ELSE "ok",
             filtered |-> filtered,
             table |-> ResultsTable(filtered, up),
             analysis |-> single,
             chart |-> single /\ SelectSeq(filtered, HasTime) # <<>>,
             best |-> best,
             stats |-> IF single /\ ~raised THEN Statistics(filtered, up) ELSE NoStats,
             comparing |-> across /\ ~raised,
             comparison |-> IF across THEN EventComparison(filtered, up) ELSE <<>>,
             download |-> ~raised ]

\* ---------------------------------------------------------------- the app
NoCall == fpc = "off" /\ arg = PNaN /\ fmt = <<>> /\ secs = PNaN

Init ==
  /\ NoCall
  /\ pc = "start"
  /\ files \in Directories(MaxRows)
  /\ df = <<>>
  /\ sel = NoSelection
  /\ page = NoPage

\* the first call of the cached load_all_swimming_data
Load ==
  /\ pc = "start"
  /\ df' = load_all_swimming_data(files)
  /\ pc' = "loaded"
  /\ UNCHANGED <<files, sel, page, fpc, arg, fmt, secs>>

\* a run of main() that finds no data and returns after st.error
MainNoData ==
  /\ pc = "loaded"
  /\ df = <<>>
  /\ page' = [NoPage EXCEPT !.status = "no_data"]
  /\ sel' = NoSelection
  /\ pc' = "rendered"
  /\ UNCHANGED <<files, df, fpc, arg, fmt, secs>>

\* a run of main() with the sidebar as the user has set it
Main ==
  /\ pc = "loaded"
  /\ df # <<>>
  /\ \E s \in Selections(df), up \in BOOLEAN :
       /\ sel' = s
       /\ page' = Render(df, s, up)
  /\ pc' = "rendered"
  /\ UNCHANGED <<files, df, fpc, arg, fmt, secs>>

\* Streamlit runs the script again on any interaction (and on st.rerun() of
\* the Reset Filters button); the cached DataFrame is kept
Rerun ==
  /\ pc = "rendered"
  /\ pc' = "loaded"
  /\ page' = NoPage
  /\ sel' = NoSelection
  /\ UNCHANGED <<files, df, fpc, arg, fmt, secs>>

Next == Load \/ MainNoData \/ Main \/ Rerun

Spec == Init /\ [][Next]_vars

\* ------------------------------------------------- claims: time functions
\* w, trimmed, is an optional sign followed by digits only, at least one
IsIntegerText(w) ==
  LET d == Unsigned(strip(w))
  IN  Len(d) >= 1 /\ \A i \in 1..Len(d) : IsDigit(d[i])

\* w, trimmed, is an optional sign followed by digits with at most one ".",
\* and at least one digit
IsDecimalText(w) ==
  LET d == Unsigned(strip(w))
  IN  /\ \A i \in 1..Len(d) : IsDigit(d[i]) \/ d[i] = "."
      /\ Cardinality({i \in 1..Len(d) : d[i] = "."}) <= 1
      /\ Cardinality({i \in 1..Len(d) : IsDigit(d[i])}) >= 1

\* the value, in units, of a decimal text by the place of each digit
DecimalValue(w) ==
  LET t == strip(w)
      d == Unsigned(t)
      dots == {i \in 1..Len(d) : d[i] = "."}
      k == IF dots = {} THEN Len(d) + 1 ELSE CHOOSE i \in dots : TRUE
      place == [i \in 1..Len(d) |->
                 IF d[i] = "." THEN 0
                 ELSE IF i < k THEN DigitVal(d[i]) * Pow10(k - 1 - i) * U
                 ELSE DigitVal(d[i]) * (U \div Pow10(i - k))]
  IN  SignOf(t) * SumOver(place, 1..Len(d))

\* the colon positions at which s reads as integer-minutes:float-seconds
MinuteSecondCuts(s) ==
  {k \in 1..Len(s) :
     /\ s[k] = ":"
     /\ IsIntegerText(SubSeq(s, 1, k - 1))
     /\ IsDecimalText(SubSeq(s, k + 1, Len(s)))}

IsPlainNumber(s) == ~Contains(s, ":") /\ IsDecimalText(s)

\* C8: parse_time_to_seconds returns null exactly for a missing value, a
\* non-finishing marker (trimmed, upper-cased, the empty string included) and
\* a text that is neither a number nor integer-minutes:float-seconds;
\* otherwise it returns minutes*60 + seconds, or the plain number.
C8_ParseNullIffMarkerOrInvalid ==
  fpc = "parsed" =>
    LET s == upper(strip(str(arg)))
        cuts == MinuteSecondCuts(s)
        valid == ~isna(arg) /\ s \notin DQ_LIKE /\ (cuts # {} \/ IsPlainNumber(s))
    IN  /\ isna(secs) <=> ~valid
        /\ valid /\ cuts # {} =>
             LET k == CHOOSE c \in cuts : TRUE
             IN  secs.v = DecimalValue(SubSeq(s, 1, k - 1)) * 60
                          + DecimalValue(SubSeq(s, k + 1, Len(s)))
        /\ valid /\ cuts = {} => secs.v = DecimalValue(s)

\* a padded minutes:seconds text has been parsed to more than a minute
C8_Witness ==
  /\ fpc = "parsed"
  /\ arg.t = "str"
  /\ MinuteSecondCuts(upper(strip(arg.s))) # {}
  /\ arg.s # strip(arg.s)
  /\ secs.t = "float"
  /\ secs.v > 60 * U

\* C7: parsing the formatted form of a numeric seconds value t, 0 <= t < 6000,
\* gives a number within 0.01 s of t, and format_time returns a non-finishing
\* marker string unchanged.
C7_RoundTripWithinHundredth ==
  /\ fpc = "roundtrip" /\ arg.t = "float" =>
       secs.t = "float" /\ Abs(secs.v - arg.v) <= U \div 100
  /\ fpc = "formatted" /\ arg.t = "str" /\ arg.s \in MarkerStrings => fmt = arg.s

\* a value of a minute or more came back changed by the two-decimal rendering
C7_Witness ==
  /\ fpc = "roundtrip"
  /\ arg.t = "float"
  /\ arg.v >= 60 * U
  /\ Contains(fmt, ":")
  /\ secs.t = "float"
  /\ secs.v # arg.v

\* the seconds field of a formatted time: what follows the colon, or all of it
SecondsField(f) ==
  IF Contains(f, ":") THEN SubSeq(f, FirstIndex(f, ":") + 1, Len(f)) ELSE f

MinutesField(f) == SubSeq(f, 1, FirstIndex(f, ":") - 1)

\* C10: the formatted form of a numeric seconds value shows a seconds field
\* strictly below 60.00, after floor(t / 60) minutes when t >= 60.
C10_SecondsFieldBelowSixty ==
  fpc = "formatted" /\ arg.t = "float" =>
    /\ PyFloat(SecondsField(fmt)) # <<>>
    /\ PyFloat(SecondsField(fmt))[1] < 60 * U
    /\ arg.v >= 60 * U =>
         Contains(fmt, ":") /\ PyInt(MinutesField(fmt)) = <<arg.v \div (60 * U)>>

\* ------------------------------------------------------ claims: the app
ValidIndices(rows) == {i \in 1..Len(rows) : ~isna(rows[i].Time_s)}

LeastOf(S) == CHOOSE a \in S : \A b \in S : a <= b
GreatestOf(S) == CHOOSE a \in S : \A b \in S : a >= b

\* C1: in the single-swimmer, single-event analysis a record without a numeric
\* time is never chosen as Best Performance and enters none of min, max,
\* average and improvement; the chosen record has the least numeric time of
\* the set, the box reports "no valid time" exactly when the set has none, and
\* the results table still lists every record of the set.
C1_BestIsLeastValidTime ==
  pc = "rendered" /\ page.analysis =>
    LET f == page.filtered
        valid == ValidIndices(f)
        times == {f[i].Time_s.v : i \in valid}
    IN  /\ page.best.kind = "skipped" <=> valid = {}
        /\ valid # {} =>
             \E i \in valid :
               /\ f[i].idx = page.best.idx
               /\ \A j \in valid : f[i].Time_s.v <= f[j].Time_s.v
        /\ page.stats.kind = "full" =>
             /\ page.stats.min = LeastOf(times)
             /\ page.stats.max = GreatestOf(times)
             /\ page.stats.improvement = GreatestOf(times) - LeastOf(times)
             /\ page.stats.avg =
                  SumOver([i \in 1..Len(f) |-> IF i \in valid THEN f[i].Time_s.v ELSE 0],
                          1..Len(f)) \div Cardinality(valid)
        /\ {page.table[k].idx : k \in 1..Len(page.table)} = {f[i].idx : i \in 1..Len(f)}

\* a set with a DQ record and two timed records: best shown, statistics full
C1_Witness ==
  /\ pc = "rendered"
  /\ page.analysis
  /\ \E i \in 1..Len(page.filtered) : isna(page.filtered[i].Time_s)
  /\ page.best.kind = "shown"
  /\ page.stats.kind = "full"
  /\ \E k \in 1..Len(page.table) :
       page.table[k].Time_Formatted = <<"D","Q">> /\ page.table[k].idx # page.best.idx

\* C2: the count the Statistics box reports is the number of records with a
\* numeric time, and min, max, mean and improvement = max - min are reported
\* exactly when that number is at least 2.
C2_CountIsNumberOfValidTimes ==
  pc = "rendered" /\ page.stats.kind # "none" =>
    LET f == page.filtered
        valid == ValidIndices(f)
        times == {f[i].Time_s.v : i \in valid}
    IN  /\ page.stats.total_events = Cardinality(valid)
        /\ page.stats.kind = "full" <=> Cardinality(valid) >= 2
        /\ page.stats.kind = "full" =>
             page.stats.improvement = GreatestOf(times) - LeastOf(times)

\* the Name cell of line number idx of the concatenated files, as read
RawName(idx) == concat(files)[idx + 1].Name

BlankName(x) == isna(x) \/ strip(str(x)) = <<>>

\* C3: the loaded data holds no record whose Name was empty, missing or only
\* whitespace in its file, and the swimmer list offers only names of the files.
C3_NoBlankNameLoaded ==
  pc # "start" =>
    /\ \A i \in 1..Len(df) : ~BlankName(RawName(df[i].idx))
    /\ \A n \in Range(get_available_swimmers(df)) :
         \E j \in 1..Len(concat(files)) :
           ~BlankName(concat(files)[j].Name) /\ strip(str(concat(files)[j].Name)) = n

\* C4: with a (start, end) range selected, the filtered rows are exactly the
\* rows passing the swimmer, event and team filters whose date lies in
\* [start, end]; no row without a date is among them.
C4_DateRangeIsExact ==
  pc = "rendered" /\ Len(sel.date_range) = 2 =>
    LET others == FilterTeam(FilterEvent(FilterSwimmer(df, sel.swimmer), sel.event), sel.team)
    IN  Range(page.filtered) =
          {r \in Range(others) :
             /\ ~isna(r.Meet_Date)
             /\ sel.date_range[1] <= r.Meet_Date.v
             /\ r.Meet_Date.v <= sel.date_range[2]}

\* C5: in the event comparison every event type reports the number of all its
\* filtered records as Event_Count, the least numeric time as Best_Time_s
\* (null if none) and the least numeric rank as Best_Rank.
C5_EventComparisonCountsAllRecords ==
  pc = "rendered" /\ page.comparing =>
    \A k \in 1..Len(page.comparison) :
      LET c == page.comparison[k]
          g == {i \in 1..Len(page.filtered) : page.filtered[i].Event_Type.s = c.Event_Type}
          times == {page.filtered[i].Time_s.v : i \in {j \in g : ~isna(page.filtered[j].Time_s)}}
          ranks == {rank_to_num(page.filtered[i].Rank).v :
                      i \in {j \in g : ~isna(rank_to_num(page.filtered[j].Rank))}}
      IN  /\ c.Event_Count = Cardinality(g)
          /\ c.Best_Time_s = IF times = {} THEN PNaN ELSE PFloat(LeastOf(times))
          /\ c.Best_Rank = IF ranks = {} THEN PNaN ELSE PFloat(LeastOf(ranks))

\* C6: no run of main() over loaded data raises.
C6_QueryNeverRaises == page.status # "raised"

DataColumns ==
  {"Meet_Name", "Meet_Date", "Name", "Rank", "Time", "Team", "Event_Type", "Time_s"}

\* C9: no two records of the loaded data agree in every column, and every
\* cleaned input row is kept exactly once.  (The DataFrame is cached: it is the
\* same before every run of main(), where this is checked.)
C9_NoDuplicateRecords ==
  pc = "loaded" =>
    /\ \A i \in 1..Len(df) : \A j \in 1..Len(df) :
         i # j => \E c \in DataColumns : df[i][c] # df[j][c]
    /\ LET cleaned == NonEmptyNames(CleanNames(concat(files)))
       IN  \A n \in 1..Len(cleaned) :
             Cardinality({i \in 1..Len(df) :
                            \A c \in DataColumns : df[i][c] = TypeRow(cleaned[n])[c]}) = 1

\* the files held the same line more than once and the load kept one of them
C9_Witness ==
  /\ pc = "loaded"
  /\ Len(df) >= 2
  /\ Len(df) < Len(NonEmptyNames(CleanNames(concat(files))))

====
